---- MODULE Spec2Model ----
(***************************************************************************)
(* Model of multiqc/modules/dragen/coverage_per_contig.py:                 *)
(*   parse_wgs_contig_mean_cov (record parser) and                         *)
(*   DragenCoveragePerContig.parse_coverage_per_contig (aggregator).       *)
(*                                                                         *)
(* A Python str is a sequence of one-character strings, so that split,     *)
(* strip, startswith/endswith, float(), int() and the file-name regular    *)
(* expression are computed character by character.  A Python dict is a     *)
(* sequence of <<key, value>> pairs in insertion order (Python >= 3.7).    *)
(***************************************************************************)
EXTENDS Integers, Sequences, FiniteSets, TLC

(* ------------------------------ strings -------------------------------- *)

Digits == <<"0", "1", "2", "3", "4", "5", "6", "7", "8", "9">>

Whitespace == {" ", "\t", "\n", "\r"}

RECURSIVE DigitValueFrom(_, _)
DigitValueFrom(c, i) ==
  IF i > Len(Digits) THEN -1
  ELSE IF Digits[i] = c THEN i - 1 ELSE DigitValueFrom(c, i + 1)

\* the value of a decimal digit character, -1 for any other character
DigitValue(c) == DigitValueFrom(c, 1)

IsDigit(c) == DigitValue(c) >= 0

\* s[a:b] of Python, 0-based half-open, written with 1-based bounds a..b
Slice(s, a, b) == IF a > b THEN <<>> ELSE SubSeq(s, a, b)

\* str.startswith
startswith(s, p) == Len(p) <= Len(s) /\ SubSeq(s, 1, Len(p)) = p

\* str.endswith
endswith(s, p) ==
  Len(p) <= Len(s) /\ SubSeq(s, Len(s) - Len(p) + 1, Len(s)) = p

\* does p occur in s at (1-based) position i
occurs_at(s, p, i) ==
  i >= 1 /\ i + Len(p) - 1 <= Len(s) /\ SubSeq(s, i, i + Len(p) - 1) = p

RECURSIVE lstrip(_)
lstrip(s) ==
  IF s # <<>> /\ Head(s) \in Whitespace THEN lstrip(Tail(s)) ELSE s

RECURSIVE rstrip(_)
rstrip(s) ==
  IF s # <<>> /\ s[Len(s)] \in Whitespace
  THEN rstrip(SubSeq(s, 1, Len(s) - 1)) ELSE s

\* str.strip(): leading and trailing whitespace removed
strip(s) == rstrip(lstrip(s))

\* position of the first occurrence of character c in s, 0 if none
RECURSIVE find_char(_, _, _)
find_char(s, c, i) ==
  IF i > Len(s) THEN 0
  ELSE IF s[i] = c THEN i ELSE find_char(s, c, i + 1)

\* str.split(sep) for a one-character separator
RECURSIVE split(_, _)
split(s, sep) ==
  LET i == find_char(s, sep, 1)
  IN  IF i = 0 THEN <<s>>
      ELSE <<Slice(s, 1, i - 1)>> \o split(Slice(s, i + 1, Len(s)), sep)

\* str.splitlines() for "\n" line ends: no empty last line
RECURSIVE splitlines(_)
splitlines(s) ==
  IF s = <<>> THEN <<>>
  ELSE LET i == find_char(s, "\n", 1)
       IN  IF i = 0 THEN <<s>>
           ELSE <<Slice(s, 1, i - 1)>> \o splitlines(Slice(s, i + 1, Len(s)))

\* str.replace(old, ""): every occurrence of old removed, left to right
RECURSIVE remove_all(_, _)
remove_all(s, old) ==
  IF s = <<>> THEN <<>>
  ELSE IF startswith(s, old)
       THEN remove_all(Slice(s, Len(old) + 1, Len(s)), old)
       ELSE <<Head(s)>> \o remove_all(Tail(s), old)

(* ------------------------------ numbers -------------------------------- *)

AllDigits(s) == \A i \in 1..Len(s) : IsDigit(s[i])

RECURSIVE DigitsValue(_)
DigitsValue(s) ==
  IF s = <<>> THEN 0
  ELSE 10 * DigitsValue(SubSeq(s, 1, Len(s) - 1)) + DigitValue(s[Len(s)])

Unsigned(s) == IF s # <<>> /\ Head(s) \in {"+", "-"} THEN Tail(s) ELSE s

Sign(s) == IF s # <<>> /\ Head(s) = "-" THEN -1 ELSE 1

\* int(s): surrounding whitespace ignored, an optional sign, then digits.
\* ok = FALSE stands for ValueError.
int(s) ==
  LET t == strip(s)
      u == Unsigned(t)
  IN  IF u # <<>> /\ AllDigits(u)
      THEN [ok |-> TRUE, val |-> Sign(t) * DigitsValue(u)]
      ELSE [ok |-> FALSE, val |-> 0]

RECURSIVE strip_zeros(_)
strip_zeros(s) ==
  IF s # <<>> /\ s[Len(s)] = "0"
  THEN strip_zeros(SubSeq(s, 1, Len(s) - 1)) ELSE s

\* float(s) for decimal literals: surrounding whitespace ignored, an
\* optional sign, digits with at most one point and at least one digit.
\* The value is kept exactly (integer part, fraction digits without
\* trailing zeros), which is what float() gives for literals of up to 15
\* significant digits.  ok = FALSE stands for ValueError.
float(s) ==
  LET t == strip(s)
      u == Unsigned(t)
      p == find_char(u, ".", 1)
      ip == IF p = 0 THEN u ELSE Slice(u, 1, p - 1)
      fp == IF p = 0 THEN <<>> ELSE Slice(u, p + 1, Len(u))
      iv == DigitsValue(ip)
      fv == strip_zeros(fp)
  IN  IF AllDigits(ip) /\ AllDigits(fp) /\ Len(ip) + Len(fp) > 0
      THEN [ok |-> TRUE,
            val |-> [neg |-> Sign(t) = -1 /\ (iv # 0 \/ fv # <<>>),
                     int |-> iv, frac |-> fv]]
      ELSE [ok |-> FALSE, val |-> [neg |-> FALSE, int |-> 0, frac |-> <<>>]]

(* ------------------------------- dicts --------------------------------- *)

KeySet(d) == {d[i][1] : i \in 1..Len(d)}

\* k in d
has_key(d, k) == k \in KeySet(d)

\* d[k] for a key that is present
get(d, k) == d[CHOOSE i \in 1..Len(d) : d[i][1] = k][2]

\* d[k] = v: an existing key keeps its position, a new key goes last
setitem(d, k, v) ==
  IF has_key(d, k)
  THEN [i \in 1..Len(d) |-> IF d[i][1] = k THEN <<k, v>> ELSE d[i]]
  ELSE Append(d, <<k, v>>)

\* d.update(e)
RECURSIVE update(_, _)
update(d, e) ==
  IF e = <<>> THEN d
  ELSE update(setitem(d, Head(e)[1], Head(e)[2]), Tail(e))

(* ------------------------ parse_wgs_contig_mean_cov -------------------- *)

chr == <<"c", "h", "r">>
chrUn_ == chr \o <<"U", "n", "_">>
random_suffix == <<"_", "r", "a", "n", "d", "o", "m">>
alt_suffix == <<"_", "a", "l", "t">>
chrM == chr \o <<"M">>
MT == <<"M", "T">>
Autosomal_regions ==
  <<"A", "u", "t", "o", "s", "o", "m", "a", "l", " ",
    "r", "e", "g", "i", "o", "n", "s">>

\* as skipped, with the mitochondrial names matched as prefixes
skipped_by_prefix(chrom) ==
  \/ startswith(chrom, chrUn_)
  \/ endswith(chrom, random_suffix)
  \/ endswith(chrom, alt_suffix)
  \/ startswith(chrom, chrM)
  \/ startswith(chrom, MT)

\* the condition of the `continue` of the line loop
skipped(chrom) ==
  \/ startswith(chrom, chrUn_)
  \/ endswith(chrom, random_suffix)
  \/ endswith(chrom, alt_suffix)
  \/ chrom = chrM
  \/ chrom = MT

\* as line_step, with the contig filter ahead of the float() conversion
line_step_filter_first(d, line) ==
  LET fields == split(line, ",")
  IN  IF Len(fields) # 3 THEN [raised |-> TRUE, data |-> d]
      ELSE LET chrom == strip(fields[1])
               depth == float(fields[3])
           IN  IF skipped(chrom) THEN [raised |-> FALSE, data |-> d]
               ELSE IF ~depth.ok THEN [raised |-> TRUE, data |-> d]
               ELSE [raised |-> FALSE,
                     data |-> setitem(d, chrom, depth.val)]

\* one pass of the line loop body on `line` with perchrom_data = d:
\* raised = TRUE stands for the ValueError of the unpacking or of float()
line_step(d, line) ==
  LET fields == split(line, ",")
  IN  IF Len(fields) # 3 THEN [raised |-> TRUE, data |-> d]
      ELSE LET chrom == strip(fields[1])
               depth == float(fields[3])
           IN  IF ~depth.ok THEN [raised |-> TRUE, data |-> d]
               ELSE IF skipped(chrom) THEN [raised |-> FALSE, data |-> d]
               ELSE [raised |-> FALSE,
                     data |-> setitem(d, chrom, depth.val)]

\* the line loop from line i on
RECURSIVE line_loop(_, _, _)
line_loop(lines, i, d) ==
  IF i > Len(lines) THEN [raised |-> FALSE, data |-> d]
  ELSE LET r == line_step(d, lines[i])
       IN  IF r.raised THEN r ELSE line_loop(lines, i + 1, r.data)

\* chrom_order(chrom), n = len(perchrom_data)
chrom_order(chrom, n) ==
  IF chrom = Autosomal_regions THEN 0
  ELSE LET v == int(remove_all(chrom, chr))
       IN  IF v.ok THEN v.val - n ELSE 1

\* insert item x into the key-sorted sequence s after every item whose key
\* is not greater (stable)
RECURSIVE insert_sorted(_, _, _)
insert_sorted(s, x, n) ==
  IF s = <<>> THEN <<x>>
  ELSE IF chrom_order(x[1], n) < chrom_order(Head(s)[1], n)
       THEN <<x>> \o s
       ELSE <<Head(s)>> \o insert_sorted(Tail(s), x, n)

\* sorted(items, key=chrom_order): a stable sort
RECURSIVE sorted_from(_, _, _, _)
sorted_from(items, i, acc, n) ==
  IF i > Len(items) THEN acc
  ELSE sorted_from(items, i + 1, insert_sorted(acc, items[i], n), n)

sorted(items) == sorted_from(items, 1, <<>>, Len(items))

wgs_contig_mean_cov_ ==
  <<"w", "g", "s", "_", "c", "o", "n", "t", "i", "g", "_",
    "m", "e", "a", "n", "_", "c", "o", "v", "_">>
csv == <<"c", "s", "v">>

\* can (\S*).csv match from position a with the group ending before j:
\* s[a..j-1] has no whitespace, s[j] is any character, "csv" follows
tail_matches(s, a, j) ==
  /\ j >= a /\ j <= Len(s)
  /\ \A k \in a..(j - 1) : s[k] \notin Whitespace
  /\ s[j] # "\n"
  /\ occurs_at(s, csv, j + 1)

\* can the pattern match with group 1 = s[1..i-1]: s[i] is any character,
\* the marker follows, and the tail matches somewhere
head_matches(s, i) ==
  /\ i >= 1 /\ i <= Len(s)
  /\ \A k \in 1..i : s[k] # "\n"
  /\ occurs_at(s, wgs_contig_mean_cov_, i + 1)
  /\ \E j \in 1..Len(s) : tail_matches(s, i + 1 + Len(wgs_contig_mean_cov_), j)

Max(S) == CHOOSE x \in S : \A y \in S : y <= x

\* re.search(r'(.*).wgs_contig_mean_cov_(\S*).csv', fn) for a name without
\* line ends: both groups are greedy, so group 1 is the longest prefix
\* after which the rest matches and group 2 the longest run that lets
\* ".csv" match.  matched = FALSE stands for None.
re_search(fn) ==
  LET I == {i \in 1..Len(fn) : head_matches(fn, i)}
  IN  IF I = {} THEN [matched |-> FALSE, group1 |-> <<>>, group2 |-> <<>>]
      ELSE LET i == Max(I)
               a == i + 1 + Len(wgs_contig_mean_cov_)
               j == Max({k \in 1..Len(fn) : tail_matches(fn, a, k)})
           IN  [matched |-> TRUE,
                group1 |-> Slice(fn, 1, i - 1),
                group2 |-> Slice(fn, a, j - 1)]

\* parse_wgs_contig_mean_cov(f).  raised is "none", "ValueError" (a
\* malformed line) or "AttributeError" (m is None, the name does not match);
\* s_name is f['s_name'] after the call; ret is the returned dict
\* {phenotype: perchrom_data}, <<>> when nothing is returned.
parse_wgs_contig_mean_cov(f) ==
  LET r == line_loop(splitlines(f.f), 1, <<>>)
      m == re_search(f.fn)
  IN  IF r.raised
      THEN [raised |-> "ValueError", s_name |-> f.s_name, ret |-> <<>>]
      ELSE IF ~m.matched
      THEN [raised |-> "AttributeError", s_name |-> f.s_name, ret |-> <<>>]
      ELSE [raised |-> "none", s_name |-> m.group1,
            ret |-> << <<m.group2, sorted(r.data)>> >>]

(* ------------------------------- inputs -------------------------------- *)

\* most lines of one report
MaxLines == 2

\* most files find_log_files yields in one run over a cohort
MaxFiles == 3

\* a report line "name,bases,depth"
Line(name, bases, depth) == name \o <<",">> \o bases \o <<",">> \o depth

Bases == <<"1", "0">>

WellFormedLines ==
  { Line(chr \o <<"1">>, Bases, <<"1", ".", "5">>),
    Line(chr \o <<"1", " ">>, Bases, <<" ", "9", ".", "5", "0">>),
    Line(chr \o <<"2">>, Bases, <<"2">>),
    Line(chr \o <<"2", "2">>, Bases, <<"2", "2", ".", "2", "5">>),
    Line(chr \o <<"X">>, Bases, <<"0">>),
    Line(Autosomal_regions \o <<" ">>, Bases, <<"4", "7", ".", "4", "9", "5", "3">>),
    Line(chrUn_ \o <<"G", "L">>, Bases, <<"1", "2", "8", ".", "7", "7">>),
    Line(chr \o <<"Y">> \o random_suffix, Bases, <<"0">>),
    Line(chr \o <<"2">> \o alt_suffix, Bases, <<"3">>),
    Line(chrM, Bases, <<"9", "0", "0">>),
    Line(MT, Bases, <<"9", "0", "1">>),
    Line(chrM \o <<"T">>, Bases, <<"4", ".", "5">>),
    Line(chr \o <<"1">> \o alt_suffix \o <<"_", "x">>, Bases, <<"5">>) }

MalformedLines ==
  { <<>>,
    chr \o <<"1", ",">> \o Bases,
    Line(chr \o <<"1">>, Bases, <<"1", ".", "5", ",", "7">>),
    Line(chr \o <<"2">>, Bases, <<"x">>),
    Line(chrM, Bases, <<>>) }

ReportLines == WellFormedLines \cup MalformedLines

RECURSIVE SeqsUpTo(_, _)
SeqsUpTo(S, n) ==
  IF n = 0 THEN {<<>>}
  ELSE LET R == SeqsUpTo(S, n - 1)
       IN  R \cup {Append(r, x) : r \in {q \in R : Len(q) = n - 1}, x \in S}

\* the text of a report: every line ended by "\n"
RECURSIVE Text(_)
Text(lines) ==
  IF lines = <<>> THEN <<>> ELSE Head(lines) \o <<"\n">> \o Text(Tail(lines))

Reports == {Text(ls) : ls \in SeqsUpTo(ReportLines, MaxLines)}

S1 == <<"S", "1">>
tumor == <<"t", "u", "m", "o", "r">>
normal == <<"n", "o", "r", "m", "a", "l">>
S1_normal == S1 \o <<" ">> \o normal

\* "<prefix>.wgs_contig_mean_cov_<phenotype>.csv"
Name(prefix, phenotype) ==
  prefix \o <<".">> \o wgs_contig_mean_cov_ \o phenotype \o <<".">> \o csv

ConformingNames ==
  { Name(S1, tumor), Name(S1, normal), Name(S1, <<>>), Name(S1_normal, tumor) }

OtherNames ==
  { S1 \o <<".">> \o csv,
    wgs_contig_mean_cov_ \o tumor \o <<".">> \o csv,
    S1 \o <<"X">> \o wgs_contig_mean_cov_ \o tumor \o <<".">> \o csv,
    S1 \o <<".">> \o wgs_contig_mean_cov_ \o tumor \o <<"X">> \o csv,
    Name(S1, tumor) \o <<".", "b", "a", "k">>,
    Name(S1, <<"t", "u", " ", "m", "o", "r">>) }

\* f['s_name'] as find_log_files yields it, before the parser sets it
NoName == << "<s_name of find_log_files>" >>

File(fn, text) == [fn |-> fn, f |-> text, s_name |-> NoName]

ReportA == Text(<< Line(chr \o <<"1">>, Bases, <<"1", ".", "5">>) >>)
ReportB == Text(<< Line(chr \o <<"1">>, Bases, <<"2">>) >>)
ReportBad == Text(<< chr \o <<"1", ",">> \o Bases >>)

\* what find_log_files can yield when single reports are analysed
SingleFiles ==
  {File(Name(S1, tumor), t) : t \in Reports}
  \cup {File(n, t) : n \in ConformingNames \cup OtherNames,
                      t \in {ReportA, ReportBad}}

\* what find_log_files can yield when a cohort is analysed
CohortFiles ==
  {File(n, t) : n \in ConformingNames, t \in {ReportA, ReportB}}
  \cup {File(S1 \o <<".">> \o csv, ReportA), File(Name(S1, tumor), ReportBad)}

\* the sample names the configuration can ignore
IgnoreSets == SUBSET {S1, S1_normal}

(* ---------------------- parse_coverage_per_contig ---------------------- *)

VARIABLES
  source,      \* "cohort" or "single": what the analysed directory holds
  ignored,     \* configuration: the sample names ignore_samples drops
  pc,          \* "loop", "ignore", "merge", "done", "raised"
  found,       \* the files find_log_files has yielded, as the loop left them
  perchrom_data_by_phenotype,            \* return value of the last parse
  perchrom_data_by_phenotype_by_sample,  \* dict: sample -> phenotype -> map
  perchrom_data_by_sample,               \* dict: display name -> map
  sn_i, ph_j,  \* position of the two merge loops
  log,         \* messages handed to the logger
  data_sources,\* files registered with add_data_source
  sections,    \* the plots handed to add_section
  raised       \* the exception that ended the run, "none" if none

vars == << source, ignored, pc, found, perchrom_data_by_phenotype,
           perchrom_data_by_phenotype_by_sample, perchrom_data_by_sample,
           sn_i, ph_j, log, data_sources, sections, raised >>

find_log_files == IF source = "cohort" THEN CohortFiles ELSE SingleFiles

FileLimit == IF source = "cohort" THEN MaxFiles ELSE 1

Start ==
  /\ pc = "loop"
  /\ found = <<>>
  /\ perchrom_data_by_phenotype = <<>>
  /\ perchrom_data_by_phenotype_by_sample = <<>>
  /\ perchrom_data_by_sample = <<>>
  /\ sn_i = 1 /\ ph_j = 1
  /\ log = <<>>
  /\ data_sources = <<>>
  /\ sections = <<>>
  /\ raised = "none"

Init == source = "cohort" /\ ignored \in IgnoreSets /\ Start

InitParser == source = "single" /\ ignored = {} /\ Start

\* the test of the duplicate diagnostic
is_duplicate(d, f) == has_key(d, f.s_name)

\* as update_default, with d[k] = e in place of d[k].update(e)
update_default_assign(d, k, e) == setitem(d, k, e)

\* d[k].update(e) on a defaultdict(dict)
update_default(d, k, e) ==
  setitem(d, k, update(IF has_key(d, k) THEN get(d, k) ELSE <<>>, e))

\* one pass of the file loop whose parse returns
NextFile(f0) ==
  LET r == parse_wgs_contig_mean_cov(f0)
      f == [f0 EXCEPT !.s_name = r.s_name]
  IN  /\ pc = "loop" /\ Len(found) < FileLimit
      /\ r.raised = "none"
      /\ found' = Append(found, f)
      /\ perchrom_data_by_phenotype' = r.ret
      /\ log' = IF is_duplicate(perchrom_data_by_phenotype_by_sample, f)
                THEN Append(log, [level |-> "debug", file |-> Len(found) + 1,
                                  arg |-> f.s_name])
                ELSE log
      /\ data_sources' = Append(data_sources, f.fn)
      /\ perchrom_data_by_phenotype_by_sample' =
           update_default(perchrom_data_by_phenotype_by_sample, f.s_name, r.ret)
      /\ UNCHANGED << source, ignored, pc, perchrom_data_by_sample, sn_i, ph_j,
                      sections, raised >>

\* one pass of the file loop whose parse raises: the run ends there
NextFileRaises(f0) ==
  LET r == parse_wgs_contig_mean_cov(f0)
      f == [f0 EXCEPT !.s_name = r.s_name]
  IN  /\ pc = "loop" /\ Len(found) < FileLimit
      /\ r.raised # "none"
      /\ found' = Append(found, f)
      /\ raised' = r.raised
      /\ pc' = "raised"
      /\ UNCHANGED << source, ignored, perchrom_data_by_phenotype,
                      perchrom_data_by_phenotype_by_sample,
                      perchrom_data_by_sample, sn_i, ph_j, log, data_sources,
                      sections >>

\* find_log_files is exhausted
StopIteration ==
  /\ pc = "loop"
  /\ pc' = "ignore"
  /\ UNCHANGED << source, ignored, found, perchrom_data_by_phenotype,
                  perchrom_data_by_phenotype_by_sample, perchrom_data_by_sample,
                  sn_i, ph_j, log, data_sources, sections, raised >>

\* BaseMultiqcModule.ignore_samples: the entries of the ignored samples go
ignore_samples(d) == SelectSeq(d, LAMBDA e : e[1] \notin ignored)

IgnoreSamples ==
  /\ pc = "ignore"
  /\ perchrom_data_by_phenotype_by_sample' =
       ignore_samples(perchrom_data_by_phenotype_by_sample)
  /\ pc' = "merge" /\ sn_i' = 1 /\ ph_j' = 1
  /\ UNCHANGED << source, ignored, found, perchrom_data_by_phenotype,
                  perchrom_data_by_sample, log, data_sources, sections, raised >>

\* as new_sn, with the suffix for every phenotype but "tumor"
new_sn_unless_tumor(sn, phenotype) ==
  IF phenotype # tumor THEN sn \o <<" ">> \o normal ELSE sn

\* the display name of a phenotype of sample sn
new_sn(sn, phenotype) ==
  IF phenotype = normal THEN sn \o <<" ">> \o normal ELSE sn

\* one pass of the inner merge loop
MergeStep ==
  /\ pc = "merge" /\ sn_i <= Len(perchrom_data_by_phenotype_by_sample)
  /\ LET sn == perchrom_data_by_phenotype_by_sample[sn_i][1]
         by_phenotype == perchrom_data_by_phenotype_by_sample[sn_i][2]
         phenotype == by_phenotype[ph_j][1]
     IN  /\ perchrom_data_by_sample' =
              setitem(perchrom_data_by_sample, new_sn(sn, phenotype),
                      by_phenotype[ph_j][2])
         /\ IF ph_j < Len(by_phenotype)
            THEN sn_i' = sn_i /\ ph_j' = ph_j + 1
            ELSE sn_i' = sn_i + 1 /\ ph_j' = 1
  /\ UNCHANGED << source, ignored, pc, found, perchrom_data_by_phenotype,
                  perchrom_data_by_phenotype_by_sample, log, data_sources,
                  sections, raised >>

\* as no_data, testing the files found in place of the merged data
no_data_no_files(d) == found = <<>>

\* `not perchrom_data_by_sample`
no_data(d) == d = <<>>

\* the early return
ReturnNoData ==
  /\ pc = "merge" /\ sn_i > Len(perchrom_data_by_phenotype_by_sample)
  /\ no_data(perchrom_data_by_sample)
  /\ pc' = "done"
  /\ UNCHANGED << source, ignored, found, perchrom_data_by_phenotype,
                  perchrom_data_by_phenotype_by_sample, perchrom_data_by_sample,
                  sn_i, ph_j, log, data_sources, sections, raised >>

\* log.info and add_section with the line graph of the merged data
AddSection ==
  /\ pc = "merge" /\ sn_i > Len(perchrom_data_by_phenotype_by_sample)
  /\ ~no_data(perchrom_data_by_sample)
  /\ log' = Append(log, [level |-> "info", file |-> 0,
                         arg |-> Len(perchrom_data_by_sample)])
  /\ sections' = Append(sections, perchrom_data_by_sample)
  /\ pc' = "done"
  /\ UNCHANGED << source, ignored, found, perchrom_data_by_phenotype,
                  perchrom_data_by_phenotype_by_sample, perchrom_data_by_sample,
                  sn_i, ph_j, data_sources, raised >>

Next ==
  \/ \E f \in find_log_files : NextFile(f)
  \/ \E f \in find_log_files : NextFileRaises(f)
  \/ StopIteration
  \/ IgnoreSamples
  \/ MergeStep
  \/ ReturnNoData
  \/ AddSection

Spec == Init /\ [][Next]_vars

SpecParser == InitParser /\ [][Next]_vars

(* ------------------------------ properties ----------------------------- *)

\* the file of the i-th pass of the file loop, as find_log_files yielded it
Yielded(i) == File(found[i].fn, found[i].f)

\* the phenotype and the map the parser returned for the i-th file
PhenotypeOf(i) == parse_wgs_contig_mean_cov(Yielded(i)).ret[1][1]
MapOf(i) == parse_wgs_contig_mean_cov(Yielded(i)).ret[1][2]

\* the file loop is running or has just ended: every file so far was parsed
\* and the accumulator has not been filtered yet
Accumulating == pc \in {"loop", "ignore"}

\* the single report of a run has been parsed and its map returned
Returned == Len(found) = 1 /\ pc # "raised"

ReturnedMap == perchrom_data_by_phenotype[1][2]

(* C1 *)

IsNumbered(chrom) ==
  chrom # Autosomal_regions /\ int(remove_all(chrom, chr)).ok

NumberOf(chrom) == int(remove_all(chrom, chr)).val

\* 0 for a numbered contig, 1 for "Autosomal regions", 2 for the others
GroupOf(chrom) ==
  IF chrom = Autosomal_regions THEN 1 ELSE IF IsNumbered(chrom) THEN 0 ELSE 2

\* C1: in every returned map the numbered contigs come first, in ascending
\* numeric order, then "Autosomal regions", then every non-numeric contig,
\* whatever the set of retained contigs is.
C1_NumberedContigsFirst ==
  Returned =>
    \A i, j \in 1..Len(ReturnedMap) :
      i < j =>
        /\ GroupOf(ReturnedMap[i][1]) <= GroupOf(ReturnedMap[j][1])
        /\ (IsNumbered(ReturnedMap[i][1]) /\ IsNumbered(ReturnedMap[j][1]))
             => NumberOf(ReturnedMap[i][1]) <= NumberOf(ReturnedMap[j][1])

(* C2 *)

SamePair(i, j) ==
  found[i].s_name = found[j].s_name /\ PhenotypeOf(i) = PhenotypeOf(j)

IsLastOfPair(i) == \A j \in (i + 1)..Len(found) : ~SamePair(i, j)

Occurrences(d, k) == Cardinality({n \in 1..Len(d) : d[n][1] = k})

DisplayName(S, P) ==
  IF P = <<"n", "o", "r", "m", "a", "l">>
  THEN S \o <<" ", "n", "o", "r", "m", "a", "l">> ELSE S

\* the (sample, phenotype) positions the merge loops have passed
Merged ==
  {<<n, k>> \in (1..Len(perchrom_data_by_phenotype_by_sample))
                \X (1..(MaxFiles + 1)) :
     /\ k <= Len(perchrom_data_by_phenotype_by_sample[n][2])
     /\ (n < sn_i \/ (n = sn_i /\ k < ph_j))}

\* the position the merge loops passed last
LastMerged(q) ==
  q \in Merged /\ \A r \in Merged :
    r[1] < q[1] \/ (r[1] = q[1] /\ r[2] <= q[2])

\* C3: during and after the merge, the display names present are exactly
\* those of the phenotypes merged so far (sample + " normal" for "normal",
\* the bare sample for any other label), and the phenotype merged last is
\* found under its display name with its own map; so a sample with "tumor"
\* and "normal" gives the two keys S and "S normal" and a sample with one
\* phenotype gives one key.
C3_MergeRule ==
  pc \in {"merge", "done"} =>
    /\ KeySet(perchrom_data_by_sample) =
         { DisplayName(perchrom_data_by_phenotype_by_sample[q[1]][1],
                       perchrom_data_by_phenotype_by_sample[q[1]][2][q[2]][1])
           : q \in Merged }
    /\ \A q \in Merged :
         LastMerged(q) =>
           get(perchrom_data_by_sample,
               DisplayName(perchrom_data_by_phenotype_by_sample[q[1]][1],
                           perchrom_data_by_phenotype_by_sample[q[1]][2][q[2]][1]))
             = perchrom_data_by_phenotype_by_sample[q[1]][2][q[2]][2]
    /\ \A n \in 1..Len(perchrom_data_by_phenotype_by_sample) :
         LET S == perchrom_data_by_phenotype_by_sample[n][1]
             by_phenotype == perchrom_data_by_phenotype_by_sample[n][2]
         IN  (pc = "done" /\ Len(perchrom_data_by_phenotype_by_sample) = 1) =>
               /\ KeySet(by_phenotype) = {tumor, normal} =>
                    /\ KeySet(perchrom_data_by_sample)
                         = {S, S \o <<" ", "n", "o", "r", "m", "a", "l">>}
                    /\ get(perchrom_data_by_sample, S) = get(by_phenotype, tumor)
                    /\ get(perchrom_data_by_sample,
                           S \o <<" ", "n", "o", "r", "m", "a", "l">>)
                         = get(by_phenotype, normal)
               /\ Len(by_phenotype) = 1 => Len(perchrom_data_by_sample) = 1

\* a sample with different tumor and normal data has been merged into the
\* two keys S1 and "S1 normal"
C3_Witness ==
  /\ pc = "done"
  /\ Len(perchrom_data_by_phenotype_by_sample) = 1
  /\ KeySet(perchrom_data_by_phenotype_by_sample[1][2]) = {tumor, normal}
  /\ KeySet(perchrom_data_by_sample) = {S1, S1_normal}
  /\ get(perchrom_data_by_sample, S1) # get(perchrom_data_by_sample, S1_normal)

(* C4 *)

\* the lines of the single report of a run, each split into its fields
FieldsOf(n) == split(splitlines(found[1].f)[n], ",")

LineCount == Len(splitlines(found[1].f))

\* the exclusion rule for a trimmed contig name
Excluded(name) ==
  \/ (Len(name) >= 6 /\ SubSeq(name, 1, 6) = <<"c", "h", "r", "U", "n", "_">>)
  \/ (Len(name) >= 7 /\ SubSeq(name, Len(name) - 6, Len(name))
                          = <<"_", "r", "a", "n", "d", "o", "m">>)
  \/ (Len(name) >= 4 /\ SubSeq(name, Len(name) - 3, Len(name))
                          = <<"_", "a", "l", "t">>)
  \/ name \in {<<"c", "h", "r", "M">>, <<"M", "T">>}

\* C4: the keys of a returned map are exactly the trimmed contig names of
\* the report that the exclusion rule does not reject, and each key maps to
\* the coverage parsed from the third column of its line (of the last such
\* line when a name occurs more than once).
C4_RetainedContigs ==
  Returned =>
    /\ KeySet(ReturnedMap) =
         {strip(FieldsOf(n)[1]) : n \in {k \in 1..LineCount :
                                          ~Excluded(strip(FieldsOf(k)[1]))}}
    /\ \A n \in 1..LineCount :
         LET name == strip(FieldsOf(n)[1])
         IN  (/\ ~Excluded(name)
              /\ \A k \in (n + 1)..LineCount : strip(FieldsOf(k)[1]) # name)
             => get(ReturnedMap, name) = float(FieldsOf(n)[3]).val

\* a report with an excluded and a retained contig was parsed, and the
\* retained one is a name that only contains an exclusion token
C4_Witness ==
  /\ Returned
  /\ LineCount = 2
  /\ \E n \in 1..LineCount : Excluded(strip(FieldsOf(n)[1]))
  /\ KeySet(ReturnedMap) \cap {chrM \o <<"T">>, chr \o <<"1">> \o alt_suffix \o <<"_", "x">>,
                               Autosomal_regions} # {}

(* C5 *)

\* fn is prefix + ".wgs_contig_mean_cov_" + phenotype + ".csv" with the
\* marker starting at position i (its dot included)
ConformsAt(fn, i) ==
  /\ occurs_at(fn, <<".">> \o wgs_contig_mean_cov_, i)
  /\ endswith(fn, <<".", "c", "s", "v">>)
  /\ i + Len(wgs_contig_mean_cov_) + 1 <= Len(fn) - 3
  /\ \A k \in (i + Len(wgs_contig_mean_cov_) + 1)..(Len(fn) - 4) :
       fn[k] \notin Whitespace

\* C5: a file whose lines parse gets its sample and phenotype from a name of
\* the form <prefix>.wgs_contig_mean_cov_<phenotype>.csv, and every other
\* name ends the parse with the name-format error and no result.
C5_NameFormat ==
  (Len(found) = 1 /\ raised # "ValueError") =>
    IF \E i \in 1..Len(found[1].fn) : ConformsAt(found[1].fn, i)
    THEN /\ pc # "raised"
         /\ \E i \in 1..Len(found[1].fn) :
              /\ ConformsAt(found[1].fn, i)
              /\ found[1].s_name = Slice(found[1].fn, 1, i - 1)
              /\ perchrom_data_by_phenotype[1][1] =
                   Slice(found[1].fn, i + Len(wgs_contig_mean_cov_) + 1,
                         Len(found[1].fn) - 4)
    ELSE /\ pc = "raised" /\ raised = "AttributeError"
         /\ found[1].s_name = NoName
         /\ perchrom_data_by_phenotype = <<>>

(* C6 *)

\* a line that does not have three fields or whose third field is no number
Malformed(line) ==
  Len(split(line, ",")) # 3 \/ ~float(split(line, ",")[3]).ok

HasMalformedLine(f) ==
  \E n \in 1..Len(splitlines(f.f)) : Malformed(splitlines(f.f)[n])

\* C6: a pass of the file loop over a file with a malformed line (blank,
\* wrong field count or non-numeric coverage, on an excluded contig too)
\* ends the run with the parse error: nothing is returned, s_name stays as
\* find_log_files set it, and the accumulator, the data sources and the log
\* are as before.
C6_MalformedLineIsFatal ==
  [][(Len(found') = Len(found) + 1 /\ HasMalformedLine(found'[Len(found')]))
       => /\ pc' = "raised" /\ raised' = "ValueError"
          /\ found'[Len(found')].s_name = NoName
          /\ perchrom_data_by_phenotype' = perchrom_data_by_phenotype
          /\ perchrom_data_by_phenotype_by_sample'
               = perchrom_data_by_phenotype_by_sample
          /\ data_sources' = data_sources /\ log' = log]_vars

\* a report whose first line is well formed and retained and whose second
\* line is an excluded contig without a coverage value ended the run
C6_Witness ==
  /\ pc = "raised" /\ raised = "ValueError"
  /\ Len(found) = 1
  /\ splitlines(found[1].f) =
       << Line(chr \o <<"1">>, Bases, <<"1", ".", "5">>), Line(chrM, Bases, <<>>) >>
  /\ perchrom_data_by_phenotype_by_sample = <<>>

(* C7 *)

\* C7: a section is added only at the end of a run, once, with the merged
\* data, which is then not empty; a finished run has added a section exactly
\* when the merged data has a display name, and has added none when no file
\* was found or every sample found is ignored.
C7_SectionIffData ==
  /\ sections # <<>> =>
       /\ pc = "done"
       /\ sections = <<perchrom_data_by_sample>>
       /\ perchrom_data_by_sample # <<>>
  /\ pc = "done" =>
       /\ sections # <<>> <=> KeySet(perchrom_data_by_sample) # {}
       /\ (\A i \in 1..Len(found) : found[i].s_name \in ignored)
            => sections = <<>>

\* a run that found files, every sample of which is ignored, has ended
\* without a section
C7_Witness ==
  /\ pc = "done"
  /\ found # <<>>
  /\ \A i \in 1..Len(found) : found[i].s_name \in ignored
  /\ sections = <<>>

(* C8 *)

DebugLogged(i) ==
  \E n \in 1..Len(log) : log[n].level = "debug" /\ log[n].file = i

\* C8: the duplicate diagnostic is logged for a file exactly when an earlier
\* file of the run carried the same (sample, phenotype) pair.
C8_DiagnosticIffPairSeen ==
  Accumulating =>
    \A i \in 1..Len(found) :
      DebugLogged(i) <=> \E k \in 1..(i - 1) : SamePair(k, i)

(* C9 *)

\* the (sample, phenotype) positions of the accumulator
Pairs ==
  {<<n, k>> \in (1..Len(perchrom_data_by_phenotype_by_sample))
                \X (1..(MaxFiles + 1)) :
     k <= Len(perchrom_data_by_phenotype_by_sample[n][2])}

\* C9: after the merge there are as many display names as (sample,
\* phenotype) pairs left by the exclusion, and each pair's map is found
\* under its display name.
C9_MergeLosesNothing ==
  pc = "done" =>
    /\ Len(perchrom_data_by_sample) = Cardinality(Pairs)
    /\ \A q \in Pairs :
         LET S == perchrom_data_by_phenotype_by_sample[q[1]][1]
             P == perchrom_data_by_phenotype_by_sample[q[1]][2][q[2]]
         IN  /\ has_key(perchrom_data_by_sample, DisplayName(S, P[1]))
             /\ get(perchrom_data_by_sample, DisplayName(S, P[1])) = P[2]

(* C10 *)

\* the files of the run that are not ignored and resolve to display name d
ResolveTo(d) ==
  {i \in 1..Len(found) :
     /\ found[i].s_name \notin ignored
     /\ DisplayName(found[i].s_name, PhenotypeOf(i)) = d}

\* C10: after the merge every display name holds the map parsed from the
\* last file, in processing order, that resolves to it.
C10_LastFileOfDisplayNameKept ==
  pc = "done" =>
    \A n \in 1..Len(perchrom_data_by_sample) :
      \A i \in ResolveTo(perchrom_data_by_sample[n][1]) :
        (\A k \in ResolveTo(perchrom_data_by_sample[n][1]) : k <= i)
          => perchrom_data_by_sample[n][2] = MapOf(i)

====
